---------------------------- MODULE Spec2Model ----------------------------
(***************************************************************************)
(* Model of the Error Detection library (Sources/err.c): the additive      *)
(* checksums checkSum8/16/32_Calc, the bit reflection bitReflected and the *)
(* bit-at-a-time CRC engine CRC8/16/32_Calc.                               *)
(*                                                                         *)
(* A C unsigned value is a bit vector: the tuple of its 32 bits, bit 0      *)
(* first; Bit(v, i) is bit i.  A value of type uintW_t has every bit at a  *)
(* position >= W equal to 0; storing into a uintW_t variable is Cast(v, W).*)
(* Bytes of a data buffer are integers 0..255.                             *)
(*                                                                         *)
(* The state machine runs up to two calls ("threads"), one step of a loop  *)
(* at a time, over a shared configuration record and one buffer per call.  *)
(***************************************************************************)
EXTENDS Integers, Sequences, FiniteSets, TLC

VARIABLES
    hcrc,   \* the configuration record *hcrc the CRC calls are handed
    mem,    \* mem[p]: the byte buffer _data of call p
    fr      \* fr[p]: the frame of call p: arguments, locals, position, result

vars == <<hcrc, mem, fr>>

Threads == 1..2

(***************************************************************************)
(* Bit vectors.                                                            *)
(***************************************************************************)
WordBits == 32
BitIdx == 0..(WordBits - 1)

\* the register whose bit i is F(i)
Mk(F(_)) ==
    <<F(0), F(1), F(2), F(3), F(4), F(5), F(6), F(7),
      F(8), F(9), F(10), F(11), F(12), F(13), F(14), F(15),
      F(16), F(17), F(18), F(19), F(20), F(21), F(22), F(23),
      F(24), F(25), F(26), F(27), F(28), F(29), F(30), F(31)>>
Bit(v, i) == v[i + 1]
\* The element of a one-element set.  TLC leaves an operator's argument
\* unevaluated until it is read, and may evaluate it again at every read; in
\* The({e(x) : x \in {v}}) the operand v is evaluated once, before e, however
\* often e reads x.  The loops below use it so that a pass is complete before
\* the next one starts, as it is in C.
The(S) == CHOOSE r \in S : TRUE

Zero == LET F(i) == 0 IN Mk(F)

\* The 32-bit value hi * 2^16 + lo, for hi, lo in 0..65535.
U32(hi, lo) ==
    LET F(i) == IF i < 16 THEN (lo \div (2^i)) % 2
                          ELSE (hi \div (2^(i - 16))) % 2
    IN  Mk(F)
U16(n) == U32(0, n)
\* A buffer byte read into a register.
ByteWord(b) == U32(0, b % 256)

\* Conversion to uintW_t: the bits past W are dropped.
Cast(v, W) ==
    The({LET F(i) == IF i < W THEN Bit(x, i) ELSE 0 IN Mk(F) : x \in {v}})
Xor(a, b) ==
    The({LET F(i) == (Bit(x, i) + Bit(y, i)) % 2 IN Mk(F) :
            x \in {a}, y \in {b}})
\* v << n on a 32-bit operand.
Shl(v, n) ==
    The({LET F(i) == IF i >= n THEN Bit(x, i - n) ELSE 0 IN Mk(F) : x \in {v}})

\* byte k (0 the least significant) of a register, and its 16-bit half k
ByteOf(v, k) ==
    LET b(i) == Bit(v, 8 * k + i)
    IN  b(0) + 2 * b(1) + 4 * b(2) + 8 * b(3) + 16 * b(4) + 32 * b(5)
          + 64 * b(6) + 128 * b(7)
HalfOf(v, k) == ByteOf(v, 2 * k) + 256 * ByteOf(v, 2 * k + 1)

\* a + b on 32-bit operands (the carry out of bit 31 is lost)
Add(a, b) ==
    The({U32((HalfOf(x, 1) + HalfOf(y, 1) + lo \div 65536) % 65536, lo % 65536) :
            x \in {a}, y \in {b}, lo \in {HalfOf(a, 0) + HalfOf(b, 0)}})

(***************************************************************************)
(* The bit macros of aKaReZa.h as err.c uses them.  The header is not part *)
(* of Sources/; each macro is taken with the meaning its name and its use  *)
(* give it (README: "macros ... for bitwise operations").                  *)
(***************************************************************************)
\* bitCheck(Reg, Bit): the value, 0 or 1, of bit Bit of Reg
bitCheck(Reg, b) == Bit(Reg, b)
\* bitCheckHigh(Reg, Bit): bit Bit of Reg is 1
bitCheckHigh(Reg, b) == Bit(Reg, b) = 1
\* bitChange(Reg, Bit, Value): Reg with bit Bit set to Value
bitChange(Reg, b, Value) == [Reg EXCEPT ![b + 1] = Value]
\* bitShiftLeft(Reg, Shift): Reg <<= Shift, Reg a uintW_t variable
bitShiftLeft(Reg, Shift, W) == Cast(Shl(Reg, Shift), W)

(***************************************************************************)
(* bitReflected (err.c 96-108).                                            *)
(***************************************************************************)
\* a variant of the loop body that copies bit _index to bit _index
ReflectBody_NoReverse(data, dataBits, index, temp) ==
    bitChange(temp, index, bitCheck(data, index))

\* the loop body, line 104
ReflectBody(data, dataBits, index, temp) ==
    bitChange(temp, dataBits - index, bitCheck(data, index))

\* The loop body when _dataBits is not 8, 16 or 32.  _data and _temp have
\* WordBits bits; a bit position at or past WordBits is a shift by at least
\* the width of the operand, which C leaves undefined: the bit read is 0
\* (everything shifted out) or the bit at the position modulo WordBits, and
\* the write changes nothing or changes the bit at the position modulo
\* WordBits.
ReadOutcomes(data, index) ==
    IF index < WordBits THEN {bitCheck(data, index)}
    ELSE {0, bitCheck(data, index % WordBits)}
WriteOutcomes(temp, b, Value) ==
    IF b < WordBits THEN {bitChange(temp, b, Value)}
    ELSE {temp, bitChange(temp, b % WordBits, Value)}
ReflectOutcomes(data, dataBits, index, temp) ==
    IF index < WordBits /\ dataBits - index < WordBits
    THEN {ReflectBody(data, dataBits, index, temp)}
    ELSE UNION {WriteOutcomes(temp, dataBits - index, Value) :
                   Value \in ReadOutcomes(data, index)}

\* the passes of the for loop, lines 102-105, for _index = from, ..., to in
\* this order (the first half of the passes, then the second)
RECURSIVE ReflectLoop(_, _, _, _, _)
ReflectLoop(data, dataBits, from, to, temp) ==
    IF from > to THEN temp
    ELSE IF from = to THEN ReflectBody(data, dataBits, from, temp)
    ELSE The({ReflectLoop(data, dataBits, (from + to) \div 2 + 1, to, half) :
                half \in {ReflectLoop(data, dataBits, from,
                                      (from + to) \div 2, temp)}})

\* a variant whose loop stops one pass early (_index < _dataBits)
bitReflected_Short(data, dataBits) ==
    The({ReflectLoop(d, (dataBits + 255) % 256, 0,
                     ((dataBits + 255) % 256) - 1, Zero) : d \in {data}})

\* uint32_t bitReflected(uint32_t _data, uint8_t _dataBits), for _dataBits in
\* 1..255: after _dataBits-- the loop runs for _index = 0, ..., _dataBits
bitReflected(data, dataBits) ==
    The({ReflectLoop(d, (dataBits + 255) % 256, 0, (dataBits + 255) % 256, Zero) :
            d \in {data}})

(***************************************************************************)
(* The CRC engine (err.c 124-162, 178-218, 234-274).  The three functions  *)
(* differ in the register width W and in the shift W - 8 that places the   *)
(* byte at the top of the register.                                        *)
(***************************************************************************)
\* a variant that never reflects the input byte
CRC_MixByte_NoRefIn(W, h, crc, byte) ==
    Cast(Xor(crc, Shl(ByteWord(byte), W - 8)), W)

\* lines 133-139: read the byte, reflect it when refIn, mix it in
CRC_MixByte(W, h, crc, byte) ==
    LET dataTemp == IF h.refIn
                    THEN Cast(bitReflected(ByteWord(byte), 8), 8)
                    ELSE ByteWord(byte)
    IN  Cast(Xor(crc, Shl(dataTemp, W - 8)), W)

\* a variant that XORs the polynomial in before the shift
CRC_ShiftXor_XorFirst(W, h, crc) ==
    bitShiftLeft(Cast(Xor(crc, h.Poly), W), 1, W)

\* lines 145-146: the top bit was set
CRC_ShiftXor(W, h, crc) == Cast(Xor(bitShiftLeft(crc, 1, W), h.Poly), W)
\* line 150: the top bit was clear
CRC_Shift(W, crc) == bitShiftLeft(crc, 1, W)

\* a variant that tests the lowest bit of the register
CRC_BitStep_LowBit(W, h, crc) ==
    IF bitCheckHigh(crc, 0) THEN CRC_ShiftXor(W, h, crc)
                            ELSE CRC_Shift(W, crc)

\* lines 143-151: one step of the shift register
CRC_BitStep(W, h, crc) ==
    IF bitCheckHigh(crc, W - 1) THEN CRC_ShiftXor(W, h, crc)
                                ELSE CRC_Shift(W, crc)

\* lines 141-152: the inner for loop
RECURSIVE CRC_BitLoop(_, _, _, _)
CRC_BitLoop(W, h, crc, bitIndex) ==
    IF bitIndex < 8
    THEN The({CRC_BitLoop(W, h, next, bitIndex + 1) :
                next \in {CRC_BitStep(W, h, crc)}})
    ELSE crc

\* lines 131-153: the outer for loop
RECURSIVE CRC_ByteLoop(_, _, _, _, _, _)
CRC_ByteLoop(W, h, data, dataLength, dataIndex, crc) ==
    IF dataIndex < dataLength
    THEN The({CRC_ByteLoop(W, h, data, dataLength, dataIndex + 1, next) :
                next \in {CRC_BitLoop(W, h, mixed, 0) :
                             mixed \in {CRC_MixByte(W, h, crc,
                                                    data[dataIndex + 1])}}})
    ELSE crc

\* variants of the last lines: without the output reflection, without the
\* final XOR, and with the reflection before the XOR
CRC_Final_NoRefOut(W, h, crc) == Cast(Xor(crc, h.xorOut), W)
CRC_Final_NoXor(W, h, crc) ==
    IF h.refOut THEN Cast(bitReflected(crc, W), W) ELSE crc
CRC_Final_ReflectFirst(W, h, crc) ==
    LET r == IF h.refOut THEN Cast(bitReflected(crc, W), W) ELSE crc
    IN  Cast(Xor(r, h.xorOut), W)

\* lines 155-161: the final XOR, then the output reflection
CRC_Final(W, h, crc) ==
    The({IF h.refOut THEN Cast(bitReflected(x, W), W) ELSE x :
            x \in {Cast(Xor(crc, h.xorOut), W)}})

CRC_Calc(W, h, data, dataLength) ==
    CRC_Final(W, h, CRC_ByteLoop(W, h, data, dataLength, 0, Cast(h.Init, W)))

CRC8_Calc(h, data, dataLength) == CRC_Calc(8, h, data, dataLength)
CRC16_Calc(h, data, dataLength) == CRC_Calc(16, h, data, dataLength)
CRC32_Calc(h, data, dataLength) == CRC_Calc(32, h, data, dataLength)

(***************************************************************************)
(* The checksums (err.c 27-84): _Sum += _data[_index] on a uintW_t.        *)
(***************************************************************************)
\* a variant whose accumulator is never narrowed to W bits
Sum_Add_NoWrap(W, sum, byte) == Add(sum, ByteWord(byte))

Sum_Add(W, sum, byte) == Cast(Add(sum, ByteWord(byte)), W)

RECURSIVE Sum_Loop(_, _, _, _, _)
Sum_Loop(W, data, dataLength, index, sum) ==
    IF index < dataLength
    THEN The({Sum_Loop(W, data, dataLength, index + 1, next) :
                next \in {Sum_Add(W, sum, data[index + 1])}})
    ELSE sum

checkSum_Calc(W, data, dataLength) == Sum_Loop(W, data, dataLength, 0, Zero)

checkSum8_Calc(data, dataLength) == checkSum_Calc(8, data, dataLength)
checkSum16_Calc(data, dataLength) == checkSum_Calc(16, data, dataLength)
checkSum32_Calc(data, dataLength) == checkSum_Calc(32, data, dataLength)

(***************************************************************************)
(* Frames.  op names the function called and W its width: CRC_Calc with W  *)
(* = 8, 16, 32 is CRC8_Calc, CRC16_Calc, CRC32_Calc, and likewise          *)
(* checkSum_Calc.  pc is the position in the function's body.              *)
(***************************************************************************)
Blank ==
    [op |-> "none", W |-> 0, pc |-> "idle",
     value |-> Zero, dataBits |-> 0, dataLength |-> 0,
     CRC |-> Zero, dataIndex |-> 0, bitIndex |-> 0, dataTemp |-> Zero,
     Sum |-> Zero, index |-> 0, temp |-> Zero, ret |-> Zero]

CallCRC(W, dataLength) ==
    [Blank EXCEPT !.op = "CRC_Calc", !.W = W, !.pc = "entry",
                  !.dataLength = dataLength]
CallSum(W, dataLength) ==
    [Blank EXCEPT !.op = "checkSum_Calc", !.W = W, !.pc = "entry",
                  !.dataLength = dataLength]
CallReflect(value, dataBits) ==
    [Blank EXCEPT !.op = "bitReflected", !.pc = "entry",
                  !.value = value, !.dataBits = dataBits]

At(p, op, pc) == fr[p].op = op /\ fr[p].pc = pc
Done(p, op) == At(p, op, "done")

(***************************************************************************)
(* CRC8_Calc / CRC16_Calc / CRC32_Calc, step by step.                      *)
(***************************************************************************)
\* a variant that starts the register at 0
CRC_Enter_ZeroInit(p) ==
    /\ At(p, "CRC_Calc", "entry")
    /\ fr' = [fr EXCEPT ![p].CRC = Zero,
                        ![p].bitIndex = 0, ![p].dataIndex = 0,
                        ![p].dataTemp = Zero, ![p].pc = "byte"]
    /\ UNCHANGED <<hcrc, mem>>

\* lines 126-129: _CRC = hcrc->Init and the other locals
CRC_Enter(p) ==
    /\ At(p, "CRC_Calc", "entry")
    /\ fr' = [fr EXCEPT ![p].CRC = Cast(hcrc.Init, fr[p].W),
                        ![p].bitIndex = 0, ![p].dataIndex = 0,
                        ![p].dataTemp = Zero, ![p].pc = "byte"]
    /\ UNCHANGED <<hcrc, mem>>

\* a variant that reflects the byte in place, in the caller's buffer
CRC_Byte_InPlace(p) ==
    /\ At(p, "CRC_Calc", "byte")
    /\ fr[p].dataIndex < fr[p].dataLength
    /\ LET byte == mem[p][fr[p].dataIndex + 1]
           dataTemp == IF hcrc.refIn
                       THEN Cast(bitReflected(ByteWord(byte), 8), 8)
                       ELSE ByteWord(byte)
       IN  /\ fr' = [fr EXCEPT
                      ![p].dataTemp = dataTemp,
                      ![p].CRC = CRC_MixByte(fr[p].W, hcrc, fr[p].CRC, byte),
                      ![p].bitIndex = 0, ![p].pc = "bit"]
           /\ mem' = [mem EXCEPT ![p][fr[p].dataIndex + 1] = ByteOf(dataTemp, 0)]
    /\ UNCHANGED hcrc

\* lines 131-139: the loop condition holds; the byte is read and mixed in
CRC_Byte(p) ==
    /\ At(p, "CRC_Calc", "byte")
    /\ fr[p].dataIndex < fr[p].dataLength
    /\ LET byte == mem[p][fr[p].dataIndex + 1]
       IN  fr' = [fr EXCEPT
                   ![p].dataTemp = IF hcrc.refIn
                                   THEN Cast(bitReflected(ByteWord(byte), 8), 8)
                                   ELSE ByteWord(byte),
                   ![p].CRC = CRC_MixByte(fr[p].W, hcrc, fr[p].CRC, byte),
                   ![p].bitIndex = 0, ![p].pc = "bit"]
    /\ UNCHANGED <<hcrc, mem>>

\* lines 141-151: one pass of the inner loop
CRC_Bit(p) ==
    /\ At(p, "CRC_Calc", "bit")
    /\ fr[p].bitIndex < 8
    /\ fr' = [fr EXCEPT ![p].CRC = CRC_BitStep(fr[p].W, hcrc, fr[p].CRC),
                        ![p].bitIndex = fr[p].bitIndex + 1]
    /\ UNCHANGED <<hcrc, mem>>

\* line 141 false, then line 131's _dataIndex++ (a uint16_t; uint32_t in CRC32_Calc)
CRC_NextByte(p) ==
    /\ At(p, "CRC_Calc", "bit")
    /\ ~(fr[p].bitIndex < 8)
    /\ fr' = [fr EXCEPT ![p].dataIndex = IF fr[p].W = 32
                                         THEN fr[p].dataIndex + 1
                                         ELSE (fr[p].dataIndex + 1) % 65536,
                        ![p].pc = "byte"]
    /\ UNCHANGED <<hcrc, mem>>

\* line 131 false: the loop is left
CRC_Exit(p) ==
    /\ At(p, "CRC_Calc", "byte")
    /\ ~(fr[p].dataIndex < fr[p].dataLength)
    /\ fr' = [fr EXCEPT ![p].pc = "final"]
    /\ UNCHANGED <<hcrc, mem>>

\* lines 155-161: final XOR, output reflection, return
CRC_Return(p) ==
    /\ At(p, "CRC_Calc", "final")
    /\ LET r == CRC_Final(fr[p].W, hcrc, fr[p].CRC)
       IN  fr' = [fr EXCEPT ![p].CRC = r, ![p].ret = r, ![p].pc = "done"]
    /\ UNCHANGED <<hcrc, mem>>

(***************************************************************************)
(* checkSum8_Calc / checkSum16_Calc / checkSum32_Calc, step by step.       *)
(***************************************************************************)
\* lines 29-30
Sum_Enter(p) ==
    /\ At(p, "checkSum_Calc", "entry")
    /\ fr' = [fr EXCEPT ![p].Sum = Zero, ![p].index = 0, ![p].pc = "sum"]
    /\ UNCHANGED <<hcrc, mem>>

\* lines 32-35: one pass of the loop; _index is a uint16_t
Sum_Step(p) ==
    /\ At(p, "checkSum_Calc", "sum")
    /\ fr[p].index < fr[p].dataLength
    /\ fr' = [fr EXCEPT
                ![p].Sum = Sum_Add(fr[p].W, fr[p].Sum, mem[p][fr[p].index + 1]),
                ![p].index = (fr[p].index + 1) % 65536]
    /\ UNCHANGED <<hcrc, mem>>

\* line 37
Sum_Return(p) ==
    /\ At(p, "checkSum_Calc", "sum")
    /\ ~(fr[p].index < fr[p].dataLength)
    /\ fr' = [fr EXCEPT ![p].ret = fr[p].Sum, ![p].pc = "done"]
    /\ UNCHANGED <<hcrc, mem>>

(***************************************************************************)
(* bitReflected, step by step.                                             *)
(***************************************************************************)
\* lines 98-100: _temp = 0, _index = 0, _dataBits-- on a uint8_t
Reflect_Enter(p) ==
    /\ At(p, "bitReflected", "entry")
    /\ fr' = [fr EXCEPT ![p].temp = Zero, ![p].index = 0,
                        ![p].dataBits = (fr[p].dataBits + 255) % 256,
                        ![p].pc = "reflect"]
    /\ UNCHANGED <<hcrc, mem>>

\* a variant whose _index is wider than 8 bits
Reflect_Step_WideIndex(p) ==
    /\ At(p, "bitReflected", "reflect")
    /\ fr[p].index <= fr[p].dataBits
    /\ \E temp \in ReflectOutcomes(fr[p].value, fr[p].dataBits,
                                    fr[p].index, fr[p].temp) :
          fr' = [fr EXCEPT ![p].temp = temp, ![p].index = fr[p].index + 1]
    /\ UNCHANGED <<hcrc, mem>>

\* lines 102-105: one pass of the loop; _index is a uint8_t
Reflect_Step(p) ==
    /\ At(p, "bitReflected", "reflect")
    /\ fr[p].index <= fr[p].dataBits
    /\ \E temp \in ReflectOutcomes(fr[p].value, fr[p].dataBits,
                                    fr[p].index, fr[p].temp) :
          fr' = [fr EXCEPT ![p].temp = temp,
                           ![p].index = (fr[p].index + 1) % 256]
    /\ UNCHANGED <<hcrc, mem>>

\* a variant that leaves the loop one pass early (_index < _dataBits)
Reflect_Return_Early(p) ==
    /\ At(p, "bitReflected", "reflect")
    /\ ~(fr[p].index < fr[p].dataBits)
    /\ fr' = [fr EXCEPT ![p].ret = fr[p].temp, ![p].pc = "done"]
    /\ UNCHANGED <<hcrc, mem>>

\* line 107
Reflect_Return(p) ==
    /\ At(p, "bitReflected", "reflect")
    /\ ~(fr[p].index <= fr[p].dataBits)
    /\ fr' = [fr EXCEPT ![p].ret = fr[p].temp, ![p].pc = "done"]
    /\ UNCHANGED <<hcrc, mem>>

(***************************************************************************)
(* The configurations of CRC_Reference.md.                                 *)
(***************************************************************************)
Config(Poly, Init, refIn, refOut, xorOut) ==
    [Poly |-> Poly, Init |-> Init, refIn |-> refIn, refOut |-> refOut,
     xorOut |-> xorOut]

crc8_maxim == Config(U16(\h31), Zero, TRUE, TRUE, Zero)
crc8_sae_j1850 == Config(U16(\h1D), U16(\hFF), FALSE, FALSE, U16(\hFF))
crc16_modbus == Config(U16(\h8005), U16(\hFFFF), TRUE, TRUE, Zero)
crc16_ccitt_false == Config(U16(\h1021), U16(\hFFFF), FALSE, FALSE, Zero)
crc32_standard ==
    Config(U32(\h04C1, \h1DB7), U32(\hFFFF, \hFFFF), TRUE, TRUE,
           U32(\hFFFF, \hFFFF))

\* each with the width of its structure type (hcrc8_T, hcrc16_T, hcrc32_T)
Standards ==
    {<<8, crc8_maxim>>, <<8, crc8_sae_j1850>>, <<16, crc16_modbus>>,
     <<16, crc16_ccitt_false>>, <<32, crc32_standard>>}

\* the ASCII bytes "123456789"
Check9 == <<49, 50, 51, 52, 53, 54, 55, 56, 57>>

(***************************************************************************)
(* What the callers set up.  Every buffer is at least as long as the       *)
(* length passed with it.                                                  *)
(***************************************************************************)
MaxLen == 2
LongLen == 258

Widths == {8, 16, 32}

RECURSIVE SeqsUpTo(_, _)
SeqsUpTo(S, n) ==
    IF n = 0 THEN {<<>>}
    ELSE LET shorter == SeqsUpTo(S, n - 1)
         IN  shorter \cup {Append(q, b) : q \in {r \in shorter : Len(r) = n - 1}, b \in S}

\* the n bytes of a register in transmission order
LowFirst(v, n) == [k \in 1..n |-> ByteOf(v, k - 1)]
HighFirst(v, n) == [k \in 1..n |-> ByteOf(v, n - k)]

Scenario(h, m1, f1, m2, f2) ==
    [hcrc |-> h, mem |-> <<m1, m2>>, fr |-> <<f1, f2>>]
NoConfig == Config(Zero, Zero, FALSE, FALSE, Zero)

\* a standard configuration over the check string
VectorRuns ==
    {Scenario(s[2], Check9, CallCRC(s[1], Len(Check9)), <<>>, Blank) :
        s \in Standards}

\* checksums over short buffers with every length up to the buffer's, and over
\* a buffer long enough for a 16-bit sum to wrap
SumBytes == {1, 128, 255}
LongBuf == [k \in 1..LongLen |-> 255]
SumRuns ==
    {Scenario(NoConfig, s[2], CallSum(s[1], s[3]), <<>>, Blank) :
        s \in {t \in Widths \X SeqsUpTo(SumBytes, MaxLen) \X (0..MaxLen) :
                  t[3] <= Len(t[2])}}
    \cup {Scenario(NoConfig, LongBuf, CallSum(W, LongLen), <<>>, Blank) :
            W \in Widths}

\* register values of width W for the fields of a configuration
FieldValues(W) ==
    {Cast(v, W) : v \in {Zero, U32(0, 1), U32(\h04C1, \h1DB7),
                         U32(\h8000, \h8181), U32(\hFFFF, \hFFFF)}}
PolyOf(W) == Cast(U32(\h04C1, \h1D31), W)

\* CRC calls of length 0, over every configuration of a small set
EmptyRuns ==
    {Scenario(Config(PolyOf(s[1]), s[2], s[3], s[4], s[5]), s[6],
              CallCRC(s[1], 0), <<>>, Blank) :
        s \in {t \in Widths \X FieldValues(32) \X BOOLEAN \X BOOLEAN
                       \X FieldValues(32) \X {<<>>, <<49, 255>>} :
                  t[2] \in FieldValues(t[1]) /\ t[5] \in FieldValues(t[1])}}

\* bitReflected over values with and without bits past the width
ReflectValues ==
    {Zero, U32(0, \h01), U32(0, \h80), U32(0, \h100), U32(0, \hA5C3),
     U32(\h0001, \h0000), U32(\h1234, \h5678), U32(\h8000, \h0001),
     U32(\hFFFF, \hFFFF)}
ReflectRuns ==
    {Scenario(NoConfig, <<>>, CallReflect(v, w), <<>>, Blank) :
        v \in ReflectValues, w \in Widths}

\* a message followed by its own CRC in transmission order: low byte first
\* for the reflected standards, high byte first for the others
MsgBytes == {0, 49, 255}
Framed(W, h, m) ==
    LET crc == CRC_Calc(W, h, m, Len(m))
    IN  m \o (IF h.refOut THEN LowFirst(crc, W \div 8)
                          ELSE HighFirst(crc, W \div 8))
ResidueRuns ==
    {Scenario(s[2], Framed(s[1], s[2], m),
              CallCRC(s[1], Len(m) + s[1] \div 8), <<>>, Blank) :
        s \in Standards, m \in SeqsUpTo(MsgBytes, MaxLen)}

\* output reflection with final XOR values that are, and are not, their own
\* mirror image
OrderRuns ==
    {Scenario(Config(PolyOf(s[1]), s[2], s[3], TRUE, s[4]), s[5],
              CallCRC(s[1], Len(s[5])), <<>>, Blank) :
        s \in {t \in Widths \X {Zero, U32(0, \hFF)} \X BOOLEAN
                       \X FieldValues(32) \X {<<49>>, <<255, 1>>} :
                  t[4] \in FieldValues(t[1])}}

\* two calls at once: two CRC calls on one configuration record, each with
\* its own buffer, or a CRC call beside a checksum call
SharedBufs == {<<>>, <<49>>, <<254>>}
SharedCRCRuns ==
    {Scenario(s[2], m1, CallCRC(s[1], Len(m1)), m2, CallCRC(s[1], Len(m2))) :
        s \in Standards, m1 \in SharedBufs, m2 \in SharedBufs}
SharedSumRuns ==
    {Scenario(s[2], m1, CallCRC(s[1], Len(m1)), m2, CallSum(W, Len(m2))) :
        s \in Standards, m1 \in {<<49>>}, m2 \in {<<254, 3>>}, W \in Widths}
SharedRuns == SharedCRCRuns \cup SharedSumRuns

\* the plain shift register: Init = 0, no reflection, no final XOR, over
\* every polynomial of a small set and every short message
PlainConfig(Poly) == Config(Poly, Zero, FALSE, FALSE, Zero)
DivisionRuns ==
    {Scenario(PlainConfig(s[2]), s[3], CallCRC(s[1], Len(s[3])), <<>>, Blank) :
        s \in {t \in Widths \X FieldValues(32) \X SeqsUpTo(MsgBytes, MaxLen) :
                  t[2] \in FieldValues(t[1])}}

Scenarios ==
    VectorRuns \cup SumRuns \cup EmptyRuns \cup ReflectRuns \cup ResidueRuns
        \cup OrderRuns \cup SharedRuns \cup DivisionRuns

Init ==
    \E s \in Scenarios :
        /\ hcrc = s.hcrc
        /\ mem = s.mem
        /\ fr = s.fr

Step(p) ==
    \/ CRC_Enter(p)
    \/ CRC_Byte(p)
    \/ CRC_Bit(p)
    \/ CRC_NextByte(p)
    \/ CRC_Exit(p)
    \/ CRC_Return(p)
    \/ Sum_Enter(p)
    \/ Sum_Step(p)
    \/ Sum_Return(p)
    \/ Reflect_Enter(p)
    \/ Reflect_Step(p)
    \/ Reflect_Return(p)

Next == \E p \in Threads : Step(p)

Spec == Init /\ [][Next]_vars

(***************************************************************************)
(* Calls of the greatest length a uint16_t _dataLength can pass, over a    *)
(* zeroed buffer, taken up in their last TailLen passes.  Over zero bytes  *)
(* with Init = 0 and no reflection the register is 0 at every pass, and so *)
(* is the sum; _bitIndex is 8 since the inner loop has just been left.     *)
(***************************************************************************)
UINT16_MAX == 65535
TailLen == 1

\* n zero bytes
RECURSIVE Zeros(_)
Zeros(n) ==
    IF n = 0 THEN <<>>
    ELSE LET half == Zeros(n \div 2)
         IN  IF n % 2 = 0 THEN half \o half ELSE Append(half \o half, 0)
ZeroBuf == Zeros(UINT16_MAX)
ZeroStart(W) == Config(PolyOf(W), Zero, FALSE, FALSE, Zero)
LateSum(W) ==
    [CallSum(W, UINT16_MAX) EXCEPT !.pc = "sum", !.Sum = Zero,
                                   !.index = UINT16_MAX - TailLen]
LateCRC(W) ==
    [CallCRC(W, UINT16_MAX) EXCEPT !.pc = "byte", !.CRC = Zero,
                                   !.dataTemp = Zero, !.bitIndex = 8,
                                   !.dataIndex = UINT16_MAX - TailLen]
LongRuns ==
    {Scenario(NoConfig, ZeroBuf, LateSum(W), <<>>, Blank) : W \in Widths}
    \cup {Scenario(ZeroStart(W), ZeroBuf, LateCRC(W), <<>>, Blank) :
            W \in Widths}

\* bitReflected with any width a uint8_t _dataBits can pass
AnyWidths == {0, 1, 2, 31, 33, 128, 254, 255}
WidthRuns ==
    {Scenario(NoConfig, <<>>, CallReflect(v, w), <<>>, Blank) :
        v \in {Zero, U32(0, 1)}, w \in AnyWidths}

\* the calls followed to their return: every kind of call of Scenarios, alone
\* or beside another call, the calls of the greatest length and bitReflected
\* with any width
AllScenarios ==
    VectorRuns \cup SumRuns \cup EmptyRuns \cup ReflectRuns \cup OrderRuns
        \cup SharedSumRuns \cup LongRuns \cup WidthRuns

LiveInit ==
    \E s \in AllScenarios :
        /\ hcrc = s.hcrc
        /\ mem = s.mem
        /\ fr = s.fr

\* A call is sequential code that keeps running: a step that stays possible
\* is taken.
FairSpec ==
    LiveInit /\ [][Next]_vars /\ \A p \in Threads : WF_vars(Step(p))

(***************************************************************************)
(* What the claims are stated with.                                        *)
(***************************************************************************)
\* the low W bits of v in reverse order, nothing above them
ReflectBits(v, W) ==
    LET F(i) == IF i < W THEN Bit(v, W - 1 - i) ELSE 0 IN Mk(F)

\* the sum of data[lo..hi] as an integer
RECURSIVE SumRange(_, _, _)
SumRange(data, lo, hi) ==
    IF lo > hi THEN 0
    ELSE IF lo = hi THEN data[lo]
    ELSE LET mid == (lo + hi) \div 2
         IN  SumRange(data, lo, mid) + SumRange(data, mid + 1, hi)
SumInt(data, n) == SumRange(data, 1, n)

\* n mod 2^W as a register, for 0 <= n < 2^31 (where n mod 2^32 is n)
ModWord(n, W) ==
    LET r == IF W < 31 THEN n % (2^W) ELSE n
        F(i) == IF i < 31 THEN (r \div (2^i)) % 2 ELSE 0
    IN  Mk(F)

\* Polynomials over GF(2) as the sets of their exponents.
PolyAdd(a, b) == (a \ b) \cup (b \ a)
PolyShift(a, k) == {e + k : e \in a}
PolyMul(a, b) ==
    {k \in {i + j : i \in a, j \in b} :
        Cardinality({i \in a : (k - i) \in b}) % 2 = 1}
Degree(a) == CHOOSE e \in a : \A d \in a : d <= e

\* the quotient of a by g, by long division (g is not the zero polynomial)
RECURSIVE PolyQuot(_, _)
PolyQuot(a, g) ==
    IF a = {} \/ Degree(a) < Degree(g) THEN {}
    ELSE LET k == Degree(a) - Degree(g)
         IN  {k} \cup PolyQuot(PolyAdd(a, PolyShift(g, k)), g)

\* r is the remainder of a divided by g: a = q * g + r with deg r < deg g
IsRemainder(r, a, g) ==
    /\ \A e \in r : e < Degree(g)
    /\ PolyAdd(PolyMul(PolyQuot(a, g), g), r) = a

\* the register v as a polynomial, the generator x^W + p(x), and the first n
\* bytes of data read in order, most significant bit first
RegPoly(v) == {i \in BitIdx : Bit(v, i) = 1}
Generator(W, p) == {W} \cup {i \in 0..(W - 1) : Bit(p, i) = 1}
MsgPoly(data, n) ==
    UNION {{8 * (n - j) + b : b \in {c \in 0..7 : (data[j] \div (2^c)) % 2 = 1}} :
              j \in 1..n}

\* the width bitReflected was called with (Reflect_Enter decrements _dataBits)
WidthArg(p) == IF fr[p].pc = "entry" THEN fr[p].dataBits
                                     ELSE (fr[p].dataBits + 1) % 256

\* the buffer of call p is a message followed by that message's CRC, sent
\* low byte first (wire = LowFirst) or high byte first (wire = HighFirst)
IsFramed(p, wire(_, _)) ==
    LET nb == fr[p].W \div 8
        n  == fr[p].dataLength - nb
    IN  /\ n >= 0
        /\ SubSeq(mem[p], n + 1, n + nb)
             = wire(CRC_Calc(fr[p].W, hcrc, mem[p], n), nb)

\* C1: CRC8_Calc with the CRC-8/MAXIM configuration over "123456789" returns 0xA1.
C1_Maxim_Check ==
    \A p \in Threads :
        (/\ Done(p, "CRC_Calc") /\ fr[p].W = 8 /\ hcrc = crc8_maxim
         /\ mem[p] = Check9 /\ fr[p].dataLength = 9)
        => fr[p].ret = U16(\hA1)

C1_Witness ==
    \E p \in Threads :
        /\ Done(p, "CRC_Calc") /\ fr[p].W = 8 /\ hcrc = crc8_maxim
        /\ mem[p] = Check9 /\ fr[p].dataLength = 9

\* C2: over "123456789", CRC16_Calc with CRC-16/MODBUS returns 0x4B37 and
\* CRC32_Calc with CRC-32 (Ethernet) returns 0xCBF43926.
C2_Modbus_Crc32_Check ==
    \A p \in Threads :
        (/\ Done(p, "CRC_Calc") /\ mem[p] = Check9 /\ fr[p].dataLength = 9)
        => /\ (fr[p].W = 16 /\ hcrc = crc16_modbus)
                => fr[p].ret = U16(\h4B37)
           /\ (fr[p].W = 32 /\ hcrc = crc32_standard)
                => fr[p].ret = U32(\hCBF4, \h3926)

C2_Witness ==
    \E p \in Threads :
        /\ Done(p, "CRC_Calc") /\ fr[p].W = 32 /\ hcrc = crc32_standard
        /\ mem[p] = Check9 /\ fr[p].dataLength = 9

\* C3: checkSumW_Calc returns the sum of data[0..n) mod 2^W for W in
\* {8,16,32}; it returns 0 when n = 0, and checkSum8_Calc([0xFF,0x01], 2) is 0.
C3_Checksum_Mod ==
    \A p \in Threads :
        Done(p, "checkSum_Calc")
        => /\ fr[p].ret = ModWord(SumInt(mem[p], fr[p].dataLength), fr[p].W)
           /\ fr[p].dataLength = 0 => fr[p].ret = Zero
           /\ (fr[p].W = 8 /\ mem[p] = <<255, 1>> /\ fr[p].dataLength = 2)
                => fr[p].ret = Zero

\* a sum that wraps: 0xFF + 0x01 in 8 bits
C3_Witness ==
    \E p \in Threads :
        /\ Done(p, "checkSum_Calc") /\ fr[p].W = 8
        /\ mem[p] = <<255, 1>> /\ fr[p].dataLength = 2

\* C4: a CRC calculation of length 0 returns Init XOR xorOut, reflected over
\* W bits when refOut, whatever Poly, refIn and the buffer are.
C4_Empty ==
    \A p \in Threads :
        (Done(p, "CRC_Calc") /\ fr[p].dataLength = 0)
        => fr[p].ret = IF hcrc.refOut
                       THEN ReflectBits(Xor(hcrc.Init, hcrc.xorOut), fr[p].W)
                       ELSE Xor(hcrc.Init, hcrc.xorOut)

\* length 0 over a buffer that is not empty, reflected, Init XOR xorOut not
\* its own mirror image
C4_Witness ==
    \E p \in Threads :
        /\ Done(p, "CRC_Calc") /\ fr[p].dataLength = 0 /\ Len(mem[p]) > 0
        /\ hcrc.refOut /\ hcrc.refIn
        /\ ReflectBits(Xor(hcrc.Init, hcrc.xorOut), fr[p].W)
             # Xor(hcrc.Init, hcrc.xorOut)

\* C5: bitReflected(v, w), w in {8,16,32}, returns r with bit w-1-i of r equal
\* to bit i of v for i < w and every bit of r at a position >= w equal to 0;
\* bitReflected(0x01, 8) = 0x80 and bitReflected(0x80, 8) = 0x01.
C5_Reflect ==
    \A p \in Threads :
        Done(p, "bitReflected")
        => LET w == WidthArg(p)
               v == fr[p].value
               r == fr[p].ret
           IN  /\ \A i \in BitIdx :
                    Bit(r, i) = IF i < w THEN Bit(v, w - 1 - i) ELSE 0
               /\ (v = U32(0, \h01) /\ w = 8) => r = U32(0, \h80)
               /\ (v = U32(0, \h80) /\ w = 8) => r = U32(0, \h01)

\* a value with bits set past the width
C5_Witness ==
    \E p \in Threads :
        /\ Done(p, "bitReflected") /\ WidthArg(p) = 8
        /\ fr[p].value = U32(\h1234, \h5678)

\* C6 as claimed: reflecting the result of bitReflected(x, w) again gives x,
\* for every 32-bit x and w in {8,16,32}.
C6_Involution_AnyInput ==
    \A p \in Threads :
        Done(p, "bitReflected")
        => bitReflected(fr[p].ret, WidthArg(p)) = fr[p].value

\* C6 amended: reflecting the result of bitReflected(x, w) again gives the low
\* w bits of x: x itself exactly when x < 2^w.
C6_Involution_LowBits ==
    \A p \in Threads :
        Done(p, "bitReflected")
        => LET w == WidthArg(p)
               twice == bitReflected(fr[p].ret, w)
           IN  /\ twice = Cast(fr[p].value, w)
               /\ (twice = fr[p].value) <=> (\A i \in BitIdx : i >= w => Bit(fr[p].value, i) = 0)

C6_Witness ==
    \E p \in Threads :
        /\ Done(p, "bitReflected") /\ WidthArg(p) = 16
        /\ fr[p].value = U32(\h8000, \h0001)

\* C7: with CRC-8/MAXIM and with CRC-16/MODBUS, the CRC over a message followed
\* by its own CRC, low byte first, is 0.
C7_Residue_Zero ==
    \A p \in Threads :
        (/\ Done(p, "CRC_Calc")
         /\ \/ fr[p].W = 8 /\ hcrc = crc8_maxim
            \/ fr[p].W = 16 /\ hcrc = crc16_modbus
         /\ IsFramed(p, LowFirst))
        => fr[p].ret = Zero

\* a MODBUS frame around a message of MaxLen bytes
C7_Witness ==
    \E p \in Threads :
        /\ Done(p, "CRC_Calc") /\ fr[p].W = 16 /\ hcrc = crc16_modbus
        /\ fr[p].dataLength = MaxLen + 2 /\ IsFramed(p, LowFirst)
        /\ mem[p][1] = 49

C9_Xor_Then_Reflect ==
    [][\A p \in Threads :
          (At(p, "CRC_Calc", "final") /\ fr'[p].pc = "done" /\ hcrc.refOut)
          => LET R == fr[p].CRC
                 W == fr[p].W
                 x == hcrc.xorOut
             IN  /\ fr'[p].ret = ReflectBits(Xor(R, x), W)
                 /\ (fr'[p].ret = Xor(ReflectBits(R, W), x))
                      <=> (ReflectBits(x, W) = x)]_vars

\* a reflected result under a final XOR that is not its own mirror image, and
\* one under a final XOR that is (and is not zero)
C9_Witness ==
    \E p \in Threads :
        /\ Done(p, "CRC_Calc") /\ hcrc.refOut /\ fr[p].dataLength = 2
        /\ ReflectBits(hcrc.xorOut, fr[p].W) # hcrc.xorOut

\* what call p returns when it runs alone on its arguments
Alone(p) ==
    CASE fr[p].op = "CRC_Calc" ->
            CRC_Calc(fr[p].W, hcrc, mem[p], fr[p].dataLength)
      [] fr[p].op = "checkSum_Calc" ->
            checkSum_Calc(fr[p].W, mem[p], fr[p].dataLength)
      [] fr[p].op = "bitReflected" ->
            bitReflected(fr[p].value, WidthArg(p))

\* C10: in any interleaving of two calls that share the configuration record,
\* each call returns what it returns alone; no step changes the record or a
\* buffer, and a step changes the frame of one call only.
C10_Interleaving ==
    [][/\ hcrc' = hcrc
       /\ mem' = mem
       /\ \E p \in Threads : \A q \in Threads \ {p} : fr'[q] = fr[q]
       /\ \A p \in Threads :
            (/\ \A q \in Threads : fr[q].op # "none"
             /\ fr[p].pc # "done" /\ fr'[p].pc = "done")
            => fr'[p].ret = Alone(p)]_vars

\* both calls of a pair of CRC calls on different buffers have returned
C10_Witness ==
    /\ Done(1, "CRC_Calc") /\ Done(2, "CRC_Calc")
    /\ hcrc.refIn
    /\ mem[1] # mem[2] /\ fr[1].dataLength > 0 /\ fr[2].dataLength > 0

\* the frame of call p changes in this step
Moves(p) == fr'[p] # fr[p]

\* C11, the counters: every loop counter starts at 0 and goes up by one per
\* pass without wrapping; a checksum loop is left with _index = n, a CRC byte
\* loop with _dataIndex = n and each bit loop with _bitIndex = 8, and the loop
\* of bitReflected(v, w), w in {8,16,32}, with _index = w.
C11_Counts ==
    [][\A p \in Threads :
          Moves(p) =>
            /\ At(p, "checkSum_Calc", "entry") => fr'[p].index = 0
            /\ At(p, "checkSum_Calc", "sum") =>
                  IF fr'[p].pc = "sum"
                  THEN /\ fr[p].index < fr[p].dataLength
                       /\ fr'[p].index = fr[p].index + 1
                  ELSE fr[p].index = fr[p].dataLength
            /\ At(p, "CRC_Calc", "entry") => fr'[p].dataIndex = 0
            /\ At(p, "CRC_Calc", "byte") =>
                  IF fr'[p].pc = "bit"
                  THEN fr[p].dataIndex < fr[p].dataLength /\ fr'[p].bitIndex = 0
                  ELSE fr[p].dataIndex = fr[p].dataLength
            /\ At(p, "CRC_Calc", "bit") =>
                  IF fr'[p].pc = "bit"
                  THEN /\ fr[p].bitIndex < 8
                       /\ fr'[p].bitIndex = fr[p].bitIndex + 1
                  ELSE /\ fr[p].bitIndex = 8
                       /\ fr'[p].dataIndex = fr[p].dataIndex + 1
            /\ (At(p, "bitReflected", "entry") /\ WidthArg(p) \in Widths)
                  => fr'[p].index = 0
            /\ (At(p, "bitReflected", "reflect") /\ WidthArg(p) \in Widths) =>
                  IF fr'[p].pc = "reflect"
                  THEN /\ fr[p].index < WidthArg(p)
                       /\ fr'[p].index = fr[p].index + 1
                  ELSE fr[p].index = WidthArg(p)]_vars

\* C11, the end: every checksum call, every CRC call and every call of
\* bitReflected with a width in {8,16,32} returns.
C11_Ends ==
    \A p \in Threads :
        (\/ fr[p].op \in {"checkSum_Calc", "CRC_Calc"}
         \/ fr[p].op = "bitReflected" /\ WidthArg(p) \in Widths)
        ~> (fr[p].pc = "done")

\* C11: every call terminates, for every length up to 65535, after exactly n
\* passes (n byte passes of 8 bit passes each for a CRC, w passes for
\* bitReflected with w in {8,16,32}), no counter wrapping on the way.
C11_Terminates == C11_Counts /\ C11_Ends

\* a checksum call of length 65535 has returned
C11_Witness ==
    \E p \in Threads :
        /\ Done(p, "checkSum_Calc")
        /\ fr[p].dataLength = UINT16_MAX /\ fr[p].index = UINT16_MAX

(***************************************************************************)
(* C12: with Init = 0, refIn = refOut = false and xorOut = 0 the register  *)
(* holds, after every whole byte, the remainder of (the bytes read so far  *)
(* as a polynomial, first byte and most significant bit first) * x^W       *)
(* divided by G(x) = x^W + Poly(x); the value returned is that remainder   *)
(* for the whole message; and in every CRC call, whatever the              *)
(* configuration, the register has no bit set at position W or above.      *)
(***************************************************************************)
IsPlain(h) ==
    h.Init = Zero /\ ~h.refIn /\ ~h.refOut /\ h.xorOut = Zero

C12_Division ==
    \A p \in Threads :
        fr[p].op = "CRC_Calc" =>
            /\ \A i \in BitIdx : i >= fr[p].W => Bit(fr[p].CRC, i) = 0
            /\ IsPlain(hcrc) /\ fr[p].pc = "byte" =>
                  IsRemainder(RegPoly(fr[p].CRC),
                              PolyShift(MsgPoly(mem[p], fr[p].dataIndex), fr[p].W),
                              Generator(fr[p].W, hcrc.Poly))
            /\ IsPlain(hcrc) /\ fr[p].pc = "done" =>
                  IsRemainder(RegPoly(fr[p].ret),
                              PolyShift(MsgPoly(mem[p], fr[p].dataLength), fr[p].W),
                              Generator(fr[p].W, hcrc.Poly))

\* a CRC32_Calc call over two bytes with the plain configuration and the
\* polynomial 0x04C11DB7 has returned a remainder that is not 0
C12_Witness ==
    \E p \in Threads :
        /\ Done(p, "CRC_Calc") /\ fr[p].W = 32 /\ fr[p].dataLength = 2
        /\ IsPlain(hcrc) /\ hcrc.Poly = U32(\h04C1, \h1DB7)
        /\ fr[p].ret # Zero

(***************************************************************************)
(* C13: a bitReflected call with width 0 never returns: _dataBits-- makes  *)
(* _dataBits 255, the loop condition _index <= _dataBits then holds at     *)
(* every pass, and _index goes from 255 back to 0; a call with a width in  *)
(* 1..255 returns, and its _index never goes back to 0.                    *)
(***************************************************************************)
C13_Loop ==
    \A p \in Threads :
        (fr[p].op = "bitReflected" /\ WidthArg(p) = 0)
        => /\ fr[p].pc # "done"
           /\ fr[p].pc = "reflect"
                 => fr[p].dataBits = 255 /\ fr[p].index <= fr[p].dataBits

C13_Wraps ==
    [][\A p \in Threads :
          (At(p, "bitReflected", "reflect") /\ Moves(p) /\ fr'[p].pc = "reflect")
          => fr'[p].index = IF fr[p].index = 255 THEN 0 ELSE fr[p].index + 1]_vars

C13_Ends ==
    \A p \in Threads :
        (fr[p].op = "bitReflected" /\ WidthArg(p) \in 1..255)
            ~> (fr[p].pc = "done")

C13_Width_Zero == []C13_Loop /\ C13_Wraps /\ C13_Ends

\* a width-0 call is back at _index = 0 with a bit already written to _temp
C13_Witness ==
    \E p \in Threads :
        /\ At(p, "bitReflected", "reflect") /\ fr[p].dataBits = 255
        /\ fr[p].index = 0 /\ fr[p].temp # Zero

=============================================================================
